---- MODULE Spec2Model ----
(***************************************************************************)
(* Model of the course generation backend (src/index.js): the fallback     *)
(* template dummyCourse, extractJson, normalizeCourse,                      *)
(* generateCourseFromGemini and the POST /generate-course handler.          *)
(*                                                                         *)
(* JavaScript values are tagged records:                                    *)
(*   [t |-> "undefined"], [t |-> "null"], [t |-> "boolean", b |-> ...],     *)
(*   [t |-> "number", nan |-> TRUE] or [t |-> "number", nan |-> FALSE,      *)
(*   n |-> ...], [t |-> "string", s |-> tokens], [t |-> "array", a |-> seq],*)
(*   [t |-> "object", o |-> function from property names to values].        *)
(* A string is a sequence of tokens; a token is a run of characters that    *)
(* no operation of the program splits.                                      *)
(***************************************************************************)
EXTENDS Integers, Sequences, FiniteSets, TLC

VARIABLES
    reqs,        \* request id -> state of its run of the /generate-course handler
    template,    \* the module-level object dummyCourse, shared by all requests
    unit         \* one call of a helper: its arguments, then its result

vars == <<reqs, template, unit>>

----------------------------------------------------------------------------
(* JavaScript values                                                       *)

Undef == [t |-> "undefined"]
Null == [t |-> "null"]
Bool(b) == [t |-> "boolean", b |-> b]
Num(n) == [t |-> "number", nan |-> FALSE, n |-> n]
NaN == [t |-> "number", nan |-> TRUE]
Str(s) == [t |-> "string", s |-> s]
Arr(a) == [t |-> "array", a |-> a]
Obj(o) == [t |-> "object", o |-> o]
EmptyObj == Obj(<<>>)

Nullish(v) == v = Undef \/ v = Null

\* v.k for a value v that is neither undefined nor null. None of the property
\* names the program reads is defined on a string, number, boolean or array.
Get(v, k) == IF v.t = "object" /\ k \in DOMAIN v.o THEN v.o[k] ELSE Undef

IsArray(v) == v.t = "array"

\* The element of a one-element set. The({F(x) : x \in {e}}) is F(e) with e
\* evaluated once, before F is applied to it.
The(S) == CHOOSE r \in S : TRUE

\* Outcome of a computation: a returned value or a thrown error.
Ok(v) == [ok |-> TRUE, val |-> v]
Throw(e) == [ok |-> FALSE, err |-> e]

\* Decimal literals of the numbers the model uses.
Digits == [n \in 0..20 |-> ToString(n)]

RECURSIVE JoinTokens(_)
RECURSIVE StringTokens(_)
\* Array.prototype.join(","): null and undefined elements give the empty string.
JoinTokens(a) ==
    IF a = <<>> THEN <<>>
    ELSE (IF Nullish(Head(a)) THEN <<>> ELSE StringTokens(Head(a)))
         \o (IF Len(a) > 1 THEN <<",">> \o JoinTokens(Tail(a)) ELSE <<>>)

\* The characters of String(v).
StringTokens(v) ==
    CASE v.t = "string" -> v.s
      [] v.t = "number" -> IF v.nan THEN <<"NaN">> ELSE <<ToString(v.n)>>
      [] v.t = "boolean" -> IF v.b THEN <<"true">> ELSE <<"false">>
      [] v.t = "null" -> <<"null">>
      [] v.t = "undefined" -> <<"undefined">>
      [] v.t = "array" -> JoinTokens(v.a)
      [] v.t = "object" -> <<"[object Object]">>

\* String(v)
String(v) == Str(StringTokens(v))

\* Number(s) for a string s: the empty string is 0, a decimal literal is its
\* value, anything else is NaN.
StringToNumber(s) ==
    IF s = <<>> THEN Num(0)
    ELSE IF Len(s) = 1 /\ \E n \in DOMAIN Digits : Digits[n] = s[1]
         THEN Num(CHOOSE n \in DOMAIN Digits : Digits[n] = s[1])
         ELSE NaN

\* Number(v)
Number(v) ==
    CASE v.t = "number" -> v
      [] v.t = "string" -> StringToNumber(v.s)
      [] v.t = "boolean" -> IF v.b THEN Num(1) ELSE Num(0)
      [] v.t = "null" -> Num(0)
      [] v.t = "undefined" -> NaN
      [] v.t = "array" -> StringToNumber(JoinTokens(v.a))
      [] v.t = "object" -> NaN

\* a.map(String)
MapString(a) == [i \in 1..Len(a) |-> String(a[i])]

----------------------------------------------------------------------------
(* The fallback template                                                   *)

PH == "{{TOPIC}}"

TemplateDay(n, title, goals, concepts, exercises, notes) ==
    Obj([day |-> Num(n),
         title |-> Str(<<title>>),
         goals |-> Arr([i \in 1..3 |-> Str(<<goals[i]>>)]),
         concepts |-> Arr([i \in 1..3 |-> Str(<<concepts[i]>>)]),
         exercises |-> Arr([i \in 1..3 |-> Str(<<exercises[i]>>)]),
         notes |-> Str(<<notes>>)])

TemplateResource(title, type, url, description) ==
    Obj([title |-> Str(<<title>>),
         type |-> Str(<<type>>),
         url |-> Str(<<url>>),
         description |-> Str(<<description>>)])

dummyDays ==
    <<TemplateDay(1, "Foundation & Setup",
        <<"Understand the basics", "Set up environment", "First exercise">>,
        <<"Core terminology", "Why it matters", "Basic principles">>,
        <<"Install tools", "Terminology quiz", "Hello world task">>,
        "This day covers the foundational knowledge you need to get started. You will learn basic concepts and how to set up the environment to begin hands-on exercises."),
      TemplateDay(2, "Building Fundamentals",
        <<"Master essentials", "Practice techniques", "Build confidence">>,
        <<"Key tools", "Best practices", "Common patterns">>,
        <<"Guided tasks", "CLI practice", "Mini project">>,
        "Day two focuses on mastering fundamental techniques. You'll practice using the main tools and follow guided exercises to reinforce your understanding."),
      TemplateDay(3, "Intermediate Concepts",
        <<"Explore advanced features", "Connect concepts", "Apply skills">>,
        <<"Advanced methods", "Integration", "Optimization">>,
        <<"Problem set", "Integration task", "Perf tuning">>,
        "This day dives into intermediate topics, connecting previous concepts and exploring more advanced features. You'll apply these skills in practical exercises."),
      TemplateDay(4, "Practical Application",
        <<"Build a full project", "Test & validate", "Debug issues">>,
        <<"Project planning", "Testing", "Debugging">>,
        <<"Build project", "Write tests", "Fix bugs">>,
        "Day four emphasizes practical application. You'll build a full project, test it, and debug issues while consolidating your learning."),
      TemplateDay(5, "Mastery & Next Steps",
        <<"Solidify knowledge", "Explore advanced topics", "Roadmap">>,
        <<"Advanced architectures", "Industry practices", "Trends">>,
        <<"Capstone", "Peer review", "Learning plan">>,
        "The final day helps you solidify your knowledge, explore advanced topics, and plan next steps for continued learning.")>>

dummyResources ==
    <<TemplateResource("Complete Guide - YouTube", "video",
        "https://youtube.com", "Comprehensive video series"),
      TemplateResource("Ultimate Handbook", "pdf",
        "https://example.com", "Step-by-step reference guide"),
      TemplateResource("Community Blog", "article",
        "https://medium.com", "Insights, tutorials, and discussions")>>

SummaryHead == "A comprehensive mini-course designed to take you from beginner to confident in "
SummaryTail == ". This structured learning path combines theory with practical exercises."

dummyCourse ==
    Obj([title |-> Str(<<"Master ", PH>>),
         duration |-> Str(<<"5 Days">>),
         summary |-> Str(<<SummaryHead, PH, SummaryTail>>),
         totalLessons |-> Num(15),
         estimatedTime |-> Str(<<"2-3 hours/day">>),
         days |-> Arr(dummyDays),
         resources |-> Arr(dummyResources)])

----------------------------------------------------------------------------
(* normalizeCourse                                                         *)

safe(v, d) == IF v = Undef \/ v = Null THEN d ELSE v

\* A slip: the day is always the position, the element's own day is ignored.
dayNumberPositional(d, i) == Num(i + 1)

\* Number(safe(d.day, i + 1))
dayNumber(d, i) == Number(safe(Get(d, "day"), Num(i + 1)))

\* The callback of days.map: d is not null or undefined, i is 0-based.
normDay(d, i) ==
    Obj([day |-> dayNumber(d, i),
         title |-> String(safe(Get(d, "title"), Str(<<"Day ", ToString(i + 1)>>))),
         goals |-> IF IsArray(Get(d, "goals"))
                   THEN Arr(MapString(Get(d, "goals").a)) ELSE Arr(<<>>),
         concepts |-> IF IsArray(Get(d, "concepts"))
                      THEN Arr(MapString(Get(d, "concepts").a)) ELSE Arr(<<>>),
         exercises |-> IF IsArray(Get(d, "exercises"))
                       THEN Arr(MapString(Get(d, "exercises").a)) ELSE Arr(<<>>),
         notes |-> String(safe(Get(d, "notes"), Str(<<>>)))])

ResourceTypes == {Str(<<"video">>), Str(<<"article">>), Str(<<"pdf">>)}

\* The callback of resources.map: r is not null or undefined.
normResource(r) ==
    Obj([title |-> String(safe(Get(r, "title"), Str(<<"Resource">>))),
         type |-> IF Get(r, "type") \in ResourceTypes
                  THEN Get(r, "type") ELSE Str(<<"article">>),
         url |-> String(safe(Get(r, "url"), Str(<<"https://example.com">>))),
         description |-> String(safe(Get(r, "description"), Str(<<>>)))])

\* A slip: an empty result is returned as it is.
daysNoTemplate(tmpl, normDays) == Arr(normDays)

\* normDays.length ? normDays : dummyCourse.days
daysOrTemplate(tmpl, normDays) ==
    IF Len(normDays) # 0 THEN Arr(normDays) ELSE Get(tmpl, "days")

\* normResources.length ? normResources : dummyCourse.resources
resourcesOrTemplate(tmpl, normResources) ==
    IF Len(normResources) # 0 THEN Arr(normResources) ELSE Get(tmpl, "resources")

\* tmpl is the value of the shared dummyCourse object at the time of the call.
\* Reading a property of undefined or null throws a TypeError.
normalizeCourseWith(tmpl, data, topic) ==
    IF Nullish(data) THEN Throw("TypeError")
    ELSE
      LET days == IF IsArray(Get(data, "days")) THEN Get(data, "days").a ELSE <<>>
          resources == IF IsArray(Get(data, "resources"))
                       THEN Get(data, "resources").a ELSE <<>>
      IN  IF \E i \in 1..Len(days) : Nullish(days[i]) THEN Throw("TypeError")
          ELSE IF \E i \in 1..Len(resources) : Nullish(resources[i])
               THEN Throw("TypeError")
          ELSE
            LET normDays == [i \in 1..Len(days) |-> normDay(days[i], i - 1)]
                normResources == [i \in 1..Len(resources) |-> normResource(resources[i])]
            IN  Ok(Obj([title |-> String(safe(Get(data, "title"),
                                              Str(<<"Master ">> \o topic))),
                        duration |-> String(safe(Get(data, "duration"), Str(<<"5 Days">>))),
                        summary |-> String(safe(Get(data, "summary"),
                                                Str(<<SummaryHead>> \o topic \o <<".">>))),
                        totalLessons |-> Number(safe(Get(data, "totalLessons"), Num(15))),
                        estimatedTime |-> String(safe(Get(data, "estimatedTime"),
                                                      Str(<<"2-3 hours/day">>))),
                        days |-> daysOrTemplate(tmpl, normDays),
                        resources |-> resourcesOrTemplate(tmpl, normResources)]))

normalizeCourse(data, topic) == normalizeCourseWith(dummyCourse, data, topic)

----------------------------------------------------------------------------
(* extractJson                                                             *)

\* A text is a sequence of tokens: FENCE stands for three backticks, JSONTAG the
\* letters json, WS one whitespace character; any other token is a run of
\* characters with no backtick and no whitespace at its ends.
FENCE == "<fence>"
JSONTAG == "json"
WS == " "

RECURSIVE SkipWs(_, _)
\* A greedy whitespace run from position i: the first position at or after i
\* that holds no whitespace.
SkipWs(text, i) ==
    IF i <= Len(text) /\ text[i] = WS THEN SkipWs(text, i + 1) ELSE i

RECURSIVE LazyEnd(_, _)
\* The lazy capture group followed by optional whitespace and the closing
\* fence, from position e: the capture grows one token at a time until
\* whitespace and a fence follow it; the result is the position after the
\* capture, or 0 when the closing fence never matches.
LazyEnd(text, e) ==
    IF e > Len(text) THEN 0
    ELSE IF SkipWs(text, e) <= Len(text) /\ text[SkipWs(text, e)] = FENCE THEN e
    ELSE LazyEnd(text, e + 1)

\* An attempt of the regular expression at position p; open is the literal
\* prefix, a fence followed by json or a fence alone. Result: <<first, end>> of the
\* capture group (end exclusive), or <<0, 0>>.
MatchAt(text, p, open) ==
    IF p + Len(open) - 1 <= Len(text) /\ SubSeq(text, p, p + Len(open) - 1) = open
    THEN LET w == SkipWs(text, p + Len(open))
             e == LazyEnd(text, w)
         IN  IF e = 0 THEN <<0, 0>> ELSE <<w, e>>
    ELSE <<0, 0>>

RECURSIVE MatchFrom(_, _, _)
\* text.match(re): the leftmost position where the expression matches.
MatchFrom(text, p, open) ==
    IF p > Len(text) THEN <<0, 0>>
    ELSE IF MatchAt(text, p, open) # <<0, 0>> THEN MatchAt(text, p, open)
    ELSE MatchFrom(text, p + 1, open)

\* block[1] of text.match(re), or "none" when the match is null
Match(text, open) ==
    LET m == MatchFrom(text, 1, open)
    IN  IF m = <<0, 0>> THEN [found |-> FALSE]
        ELSE [found |-> TRUE, group |-> SubSeq(text, m[1], m[2] - 1)]

RECURSIVE TrimStart(_)
TrimStart(s) == IF s # <<>> /\ Head(s) = WS THEN TrimStart(Tail(s)) ELSE s

RECURSIVE TrimEnd(_)
TrimEnd(s) ==
    IF s # <<>> /\ s[Len(s)] = WS THEN TrimEnd(SubSeq(s, 1, Len(s) - 1)) ELSE s

\* String.prototype.trim
Trim(s) == TrimEnd(TrimStart(s))

\* A slip: the untagged expression is tried first.
extractJsonUntaggedFirst(text) ==
    LET plain == Match(text, <<FENCE>>)
        block == IF plain.found THEN plain ELSE Match(text, <<FENCE, JSONTAG>>)
    IN  Trim(IF block.found THEN block.group ELSE text)

extractJson(text) ==
    LET tagged == Match(text, <<FENCE, JSONTAG>>)
        block == IF tagged.found THEN tagged ELSE Match(text, <<FENCE>>)
    IN  Trim(IF block.found THEN block.group ELSE text)

----------------------------------------------------------------------------
(* JSON.parse of the model's text, JSON.stringify of a response             *)

WellFormedDay ==
    Obj([day |-> Num(4),
         title |-> Str(<<"Ownership">>),
         goals |-> Arr(<<Str(<<"Move semantics">>), Str(<<"Borrowing">>)>>),
         concepts |-> Arr(<<Str(<<"Lifetimes">>)>>),
         exercises |-> Arr(<<>>),
         notes |-> Str(<<"Read chapter 4.">>)])

WellFormedResource ==
    Obj([title |-> Str(<<"The Book">>),
         type |-> Str(<<"pdf">>),
         url |-> Str(<<"https://doc.rust-lang.org/book">>),
         description |-> Str(<<>>)])

WellFormedScalars ==
    [title |-> Str(<<"Rust in a week">>),
     duration |-> Str(<<"1 Day">>),
     summary |-> Str(<<"Short.">>),
     totalLessons |-> Num(3),
     estimatedTime |-> Str(<<"1 hour">>)]

WellFormedCourse ==
    Obj(WellFormedScalars @@ [days |-> Arr(<<WellFormedDay>>),
                              resources |-> Arr(<<WellFormedResource>>)])

\* The JSON documents of the model: the text of each (one token) and the value
\* JSON.parse gives for it.
Docs ==
    [tok \in {"<well-formed course>", "null", "{}", "{\"totalLessons\":\"many\"}",
              "{\"days\":[null]}"} |->
        CASE tok = "<well-formed course>" -> WellFormedCourse
          [] tok = "null" -> Null
          [] tok = "{}" -> EmptyObj
          [] tok = "{\"totalLessons\":\"many\"}" -> Obj([totalLessons |-> Str(<<"many">>)])
          [] tok = "{\"days\":[null]}" -> Obj([days |-> Arr(<<Null>>)])]

\* JSON.parse(text): white space around the document is allowed; any text that
\* is not exactly one document is a SyntaxError.
JSONparse(text) ==
    IF Len(Trim(text)) = 1 /\ Trim(text)[1] \in DOMAIN Docs
    THEN Ok(Docs[Trim(text)[1]])
    ELSE Throw("SyntaxError")

RECURSIVE ToJSON(_)
\* The value a client reads from JSON.stringify(v): NaN is written as null, a
\* property whose value is undefined is left out, an undefined array element
\* is written as null.
ToJSON(v) ==
    CASE v.t = "number" -> IF v.nan THEN Null ELSE v
      [] v.t = "array" ->
            Arr([i \in 1..Len(v.a) |->
                    IF v.a[i] = Undef THEN Null ELSE The({ToJSON(x) : x \in {v.a[i]}})])
      [] v.t = "object" ->
            Obj([k \in {j \in DOMAIN v.o : v.o[j] # Undef} |-> The({ToJSON(x) : x \in {v.o[k]}})])
      [] OTHER -> v

----------------------------------------------------------------------------
(* The fallback branch: JSON.stringify(dummyCourse).replaceAll(...)         *)

QUOTE == "\""
BACKSLASH == "\\"
DOLLAR == "$"
AMP == "&"

RECURSIVE ExpandReplacement(_)
\* The replacement text of replaceAll("{{TOPIC}}", topic): $$ inserts a $, $&
\* inserts the matched text, any other $ stands for itself.
ExpandReplacement(topic) ==
    IF topic = <<>> THEN <<>>
    ELSE IF Head(topic) = DOLLAR /\ Len(topic) >= 2 /\ topic[2] = DOLLAR
         THEN <<DOLLAR>> \o ExpandReplacement(Tail(Tail(topic)))
    ELSE IF Head(topic) = DOLLAR /\ Len(topic) >= 2 /\ topic[2] = AMP
         THEN <<PH>> \o ExpandReplacement(Tail(Tail(topic)))
    ELSE <<Head(topic)>> \o ExpandReplacement(Tail(topic))

RECURSIVE DecodeString(_)
\* JSON.parse reading the inserted characters inside a string literal of the
\* template: a double quote ends the literal early and what follows is no
\* JSON, a backslash must start an escape (only \" and \\ can occur here; a
\* backslash at the end escapes the template's closing quote).
DecodeString(s) ==
    IF s = <<>> THEN Ok(<<>>)
    ELSE IF Head(s) = QUOTE THEN Throw("SyntaxError")
    ELSE IF Head(s) = BACKSLASH
         THEN IF Len(s) >= 2 /\ s[2] \in {QUOTE, BACKSLASH}
              THEN LET rest == DecodeString(Tail(Tail(s)))
                   IN  IF rest.ok THEN Ok(<<s[2]>> \o rest.val) ELSE rest
              ELSE Throw("SyntaxError")
    ELSE LET rest == DecodeString(Tail(s))
         IN  IF rest.ok THEN Ok(<<Head(s)>> \o rest.val) ELSE rest

RECURSIVE SubstituteTokens(_, _)
SubstituteTokens(s, by) ==
    IF s = <<>> THEN <<>>
    ELSE (IF Head(s) = PH THEN by ELSE <<Head(s)>>) \o SubstituteTokens(Tail(s), by)

\* Every occurrence of {{TOPIC}} in the strings of v replaced by the tokens by.
Substitute(v, by) ==
    LET RECURSIVE Sub(_)
        Sub(x) ==
            CASE x.t = "string" -> Str(SubstituteTokens(x.s, by))
              [] x.t = "array" -> Arr([i \in 1..Len(x.a) |-> The({Sub(y) : y \in {x.a[i]}})])
              [] x.t = "object" -> Obj([k \in DOMAIN x.o |-> The({Sub(y) : y \in {x.o[k]}})])
              [] OTHER -> x
    IN  Sub(v)

\* JSON.parse(JSON.stringify(tmpl).replaceAll("{{TOPIC}}", topic))
fallback(tmpl, topic) ==
    LET inserted == DecodeString(ExpandReplacement(topic))
    IN  IF inserted.ok
        THEN Ok(The({Substitute(j, by) : j \in {ToJSON(tmpl)}, by \in {inserted.val}}))
        ELSE Throw("SyntaxError")

----------------------------------------------------------------------------
(* generateCourseFromGemini and the POST /generate-course handler           *)

\* What the awaited model.generateContent(prompt) does: the promise rejects,
\* or it resolves and result.response.text() is raw.
Reject == [kind |-> "reject"]
Resolve(raw) == [kind |-> "resolve", raw |-> raw]

\* generateCourseFromGemini from the await on: the parsed value, or the error
\* it throws.
generateCourseFromGemini(outcome) ==
    IF outcome.kind = "reject" THEN Throw("model call failed")
    ELSE LET jsonStr == extractJson(outcome.raw)
             parsed == JSONparse(jsonStr)
         IN  IF parsed.ok THEN parsed ELSE Throw("Invalid JSON from model")

\* !v
Falsy(v) ==
    \/ v.t \in {"undefined", "null"}
    \/ v.t = "boolean" /\ ~v.b
    \/ v.t = "number" /\ (v.nan \/ v.n = 0)
    \/ v.t = "string" /\ v.s = <<>>

\* A slip: the empty string is let through.
InvalidTopicTypeOnly(topic) == topic.t # "string"

\* !topic || typeof topic !== "string"
InvalidTopic(topic) == Falsy(topic) \/ topic.t # "string"

\* res.status(code).json(value) or res.json(value): one response sent
Response(status, value) == [status |-> status, body |-> ToJSON(value)]

\* The effects of a handler run from some point to its end: the responses it
\* sent, whether an exception left the handler, and the shared dummyCourse
\* object as the run leaves it.
Effects(sent, escaped, tmpl, path) ==
    [sent |-> sent, escaped |-> escaped, template |-> tmpl, path |-> path]

\* A slip: the placeholder is replaced in dummyCourse itself.
CatchBranchInPlace(tmpl, topic) ==
    LET Normalize(fb) == normalizeCourseWith(fb, fb, topic.s)
        Send(normalized) ==
            IF normalized.ok
            THEN Effects(<<Response(200, normalized.val)>>, FALSE,
                         Substitute(tmpl, topic.s), "fallback")
            ELSE Effects(<<>>, TRUE, Substitute(tmpl, topic.s), "fallback")
    IN  The({Send(n) : n \in {Normalize(fb) : fb \in {Substitute(tmpl, topic.s)}}})

\* The catch branch of the handler.
CatchBranch(tmpl, topic) ==
    LET Normalize(fb) ==
            IF fb.ok THEN normalizeCourseWith(tmpl, fb.val, topic.s) ELSE fb
        Send(normalized) ==
            IF normalized.ok
            THEN Effects(<<Response(200, normalized.val)>>, FALSE, tmpl, "fallback")
            ELSE Effects(<<>>, TRUE, tmpl, "fallback")
    IN  The({Send(n) : n \in {Normalize(fb) : fb \in {fallback(tmpl, topic.s)}}})

\* The try block from the await on, and the catch branch when it throws.
AfterAwait(tmpl, topic, outcome) ==
    LET Normalize(data) ==
            IF data.ok THEN normalizeCourseWith(tmpl, data.val, topic.s) ELSE data
        Send(normalized) ==
            IF normalized.ok
            THEN Effects(<<Response(200, normalized.val)>>, FALSE, tmpl, "model")
            ELSE CatchBranch(tmpl, topic)
    IN  The({Send(n) : n \in {Normalize(d) : d \in {generateCourseFromGemini(outcome)}}})

NReq == 2
Req == 1..NReq

Idle == [pc |-> "idle"]

\* Request bodies (req.body after express.json()) without a usable topic.
InvalidBodies ==
    {EmptyObj, Obj([topic |-> Str(<<>>)]), Obj([topic |-> Num(5)]), Obj([topic |-> Null])}

Bodies ==
    InvalidBodies
    \cup {Obj([topic |-> Str(t)]) : t \in {<<"Rust">>, <<"Go">>, <<"C", QUOTE>>}}

\* Texts the model answers with.
RawTexts ==
    {<<"<well-formed course>">>,
     <<"Here is your course:", WS, "<well-formed course>">>,
     <<"null">>}

\* The handler up to its first await: validation, then the model call.
Receive(r, body) ==
    /\ reqs[r].pc = "idle"
    /\ LET topic == Get(body, "topic")
       IN  IF InvalidTopic(topic)
           THEN reqs' = [reqs EXCEPT ![r] =
                    [pc |-> "done", body |-> body, calls |-> 0,
                     fx |-> Effects(<<Response(400,
                                Obj([error |-> Str(<<"Topic is required (string)">>)]))>>,
                                FALSE, template, "validation")]]
           ELSE reqs' = [reqs EXCEPT ![r] =
                    [pc |-> "awaiting", body |-> body, calls |-> 1]]
    /\ UNCHANGED <<template, unit>>

\* The awaited call settles and the rest of the handler runs to its end.
Settle(r, outcome) ==
    /\ reqs[r].pc = "awaiting"
    /\ \E fx \in {AfterAwait(template, Get(reqs[r].body, "topic"), outcome)} :
           /\ reqs' = [reqs EXCEPT ![r] =
                    [pc |-> "done", body |-> reqs[r].body, calls |-> reqs[r].calls,
                     outcome |-> outcome, fx |-> fx]]
           /\ template' = fx.template
    /\ UNCHANGED unit

ModelResolves(r, raw) == Settle(r, Resolve(raw))

ModelRejects(r) == Settle(r, Reject)

Init ==
    /\ reqs = [r \in Req |-> Idle]
    /\ template = dummyCourse
    /\ unit = [fn |-> "none"]

\* Requests in flight together, in any interleaving.
Next ==
    \E r \in Req :
        \/ \E body \in Bodies : Receive(r, body)
        \/ \E raw \in RawTexts : ModelResolves(r, raw)
        \/ ModelRejects(r)

Spec == Init /\ [][Next]_vars

\* One request, over every topic of up to MaxTopicLen characters of
\* TopicAlphabet and a wider choice of model answers.
MaxTopicLen == 2

TopicAlphabet == {"a", QUOTE, BACKSLASH, DOLLAR, AMP, PH}

WideBodies ==
    InvalidBodies
    \cup {Obj([topic |-> Str(t)]) :
            t \in UNION {[1..k -> TopicAlphabet] : k \in 1..MaxTopicLen}}

WideRawTexts ==
    RawTexts
    \cup {<<FENCE, JSONTAG, WS, "<well-formed course>", WS, FENCE>>,
          <<FENCE, WS, "{}", WS, FENCE>>,
          <<"{\"totalLessons\":\"many\"}">>,
          <<"{\"days\":[null]}">>}

NextRequest ==
    \/ \E body \in WideBodies : Receive(1, body)
    \/ \E raw \in WideRawTexts : ModelResolves(1, raw)
    \/ ModelRejects(1)

SpecRequest == Init /\ [][NextRequest]_vars

----------------------------------------------------------------------------
(* normalizeCourse and extractJson called on their own                      *)

MaxDays == 2
MaxResources == 1
MaxTextLen == 5

SeqsUpTo(S, n) == UNION {[1..k -> S] : k \in 0..n}

Absent == <<>>

ScalarPool ==
    {Absent,
     WellFormedScalars,
     [title |-> Num(7), duration |-> Null, totalLessons |-> Str(<<"many">>)],
     [title |-> Str(<<"T">>), totalLessons |-> Str(<<"3">>),
      summary |-> Arr(<<Str(<<"a">>), Null>>)]}

DayPool ==
    {Null,
     Num(7),
     WellFormedDay,
     Obj([day |-> Str(<<"abc">>), title |-> Null, goals |-> Arr(<<Num(1), Null>>),
          concepts |-> Str(<<"none">>), notes |-> Num(2)]),
     Obj([day |-> Null, title |-> Str(<<"X">>)])}

ResourcePool ==
    {Null,
     WellFormedResource,
     Obj([type |-> Str(<<"bogus">>)]),
     Obj([title |-> Num(1), type |-> Str(<<"video">>), url |-> Null])}

DaysPool ==
    {Absent, [days |-> Str(<<"not-an-array">>)]}
    \cup {[days |-> Arr(a)] : a \in SeqsUpTo(DayPool, MaxDays)}

ResourcesPool ==
    {Absent, [resources |-> Num(0)]}
    \cup {[resources |-> Arr(a)] : a \in SeqsUpTo(ResourcePool, MaxResources)}

Candidates ==
    {Undef, Null, Str(<<"oops">>), Num(5), Arr(<<WellFormedDay>>)}
    \cup {Obj(sc @@ d @@ rs) : sc \in ScalarPool, d \in DaysPool, rs \in ResourcesPool}

Topics == {<<"X">>, <<"a", QUOTE>>}

InitNormalize ==
    /\ reqs = [r \in Req |-> Idle]
    /\ template = dummyCourse
    /\ unit \in {[fn |-> "normalizeCourse", pc |-> "called", data |-> d, topic |-> t] :
                    d \in Candidates, t \in Topics}

NormalizeReturns ==
    /\ unit.fn = "normalizeCourse" /\ unit.pc = "called"
    /\ unit' = [fn |-> "normalizeCourse", pc |-> "returned", data |-> unit.data,
                topic |-> unit.topic,
                result |-> normalizeCourseWith(template, unit.data, unit.topic)]
    /\ UNCHANGED <<reqs, template>>

SpecNormalize == InitNormalize /\ [][NormalizeReturns]_vars

TextAlphabet == {FENCE, JSONTAG, WS, "x"}

JsonFenced(b) == <<FENCE, JSONTAG, WS>> \o b \o <<WS, FENCE>>
PlainFenced(b) == <<FENCE, WS>> \o b \o <<WS, FENCE>>

Texts ==
    LET base == SeqsUpTo(TextAlphabet, MaxTextLen)
    IN  base \cup {JsonFenced(b) : b \in base} \cup {PlainFenced(b) : b \in base}

InitExtract ==
    /\ reqs = [r \in Req |-> Idle]
    /\ template = dummyCourse
    /\ unit \in {[fn |-> "extractJson", pc |-> "called", text |-> t] : t \in Texts}

ExtractReturns ==
    /\ unit.fn = "extractJson" /\ unit.pc = "called"
    /\ unit' = [fn |-> "extractJson", pc |-> "returned", text |-> unit.text,
                result |-> extractJson(unit.text)]
    /\ UNCHANGED <<reqs, template>>

SpecExtract == InitExtract /\ [][ExtractReturns]_vars

----------------------------------------------------------------------------
(* Properties                                                              *)

Returned(fn) == unit.fn = fn /\ unit.pc = "returned"

IsText(v) == v.t = "string"
IsNumber(v) == v.t = "number"
ValidNumber(v) == v.t = "number" /\ ~v.nan
IsTextSeq(v) == v.t = "array" /\ \A i \in 1..Len(v.a) : IsText(v.a[i])
HasFields(v, keys) == v.t = "object" /\ DOMAIN v.o = keys

CourseKeys == {"title", "duration", "summary", "totalLessons", "estimatedTime",
               "days", "resources"}
DayKeys == {"day", "title", "goals", "concepts", "exercises", "notes"}
ResourceKeys == {"title", "type", "url", "description"}

\* Every declared field present with its declared type.
TypedDay(d) ==
    /\ HasFields(d, DayKeys)
    /\ IsNumber(d.o.day) /\ IsText(d.o.title) /\ IsText(d.o.notes)
    /\ IsTextSeq(d.o.goals) /\ IsTextSeq(d.o.concepts) /\ IsTextSeq(d.o.exercises)

TypedResource(x) ==
    /\ HasFields(x, ResourceKeys)
    /\ IsText(x.o.title) /\ IsText(x.o.url) /\ IsText(x.o.description)
    /\ x.o.type \in ResourceTypes

TypedCourse(c) ==
    /\ HasFields(c, CourseKeys)
    /\ IsText(c.o.title) /\ IsText(c.o.duration) /\ IsText(c.o.summary)
    /\ IsText(c.o.estimatedTime) /\ IsNumber(c.o.totalLessons)
    /\ c.o.days.t = "array" /\ \A i \in 1..Len(c.o.days.a) : TypedDay(c.o.days.a[i])
    /\ c.o.resources.t = "array"
    /\ \A i \in 1..Len(c.o.resources.a) : TypedResource(c.o.resources.a[i])

\* A well-formed Course-shaped input: typed, numbers valid, days and
\* resources not empty.
WellFormed(c) ==
    /\ TypedCourse(c)
    /\ ValidNumber(c.o.totalLessons)
    /\ \A i \in 1..Len(c.o.days.a) : ValidNumber(c.o.days.a[i].o.day)
    /\ c.o.days.a # <<>> /\ c.o.resources.a # <<>>

\* The elements of the candidate's days (resources) when it is an array, no
\* elements when it is missing or no array.
CandidateDays(data) ==
    IF data.t = "object" /\ "days" \in DOMAIN data.o /\ data.o.days.t = "array"
    THEN data.o.days.a ELSE <<>>

CandidateResources(data) ==
    IF data.t = "object" /\ "resources" \in DOMAIN data.o /\ data.o.resources.t = "array"
    THEN data.o.resources.a ELSE <<>>

\* The topic of a request body is missing, empty or not a string.
NoUsableTopic(body) ==
    \/ "topic" \notin DOMAIN body.o
    \/ body.o.topic.t # "string"
    \/ body.o.topic.s = <<>>

Done(r) == reqs[r].pc = "done"
Settled(r) == Done(r) /\ "outcome" \in DOMAIN reqs[r]
TopicOf(r) == reqs[r].body.o.topic.s

\* C1: every request with a non-empty string topic ends, whatever the model
\* call did, with exactly one response, of status 200, and no exception
\* leaves the handler.
C1_AlwaysOne200 ==
    \A r \in Req :
        Done(r) /\ ~NoUsableTopic(reqs[r].body) =>
            /\ ~reqs[r].fx.escaped
            /\ Len(reqs[r].fx.sent) = 1
            /\ reqs[r].fx.sent[1].status = 200

\* C2: normalizeCourse returns for every candidate and never throws.
C2_NormalizeTotal ==
    Returned("normalizeCourse") => unit.result.ok

\* C3: when the model call or the parse fails the response body is the
\* template with the topic T put in verbatim: title "Master " followed by T,
\* the 5 template days, the 3 template resources (video, pdf, article).
C3_FallbackVerbatim ==
    \A r \in Req :
        Settled(r) /\ ~generateCourseFromGemini(reqs[r].outcome).ok =>
            /\ Len(reqs[r].fx.sent) = 1
            /\ reqs[r].fx.sent[1].status = 200
            /\ LET body == reqs[r].fx.sent[1].body.o
               IN  /\ body.title = Str(<<"Master ">> \o TopicOf(r))
                   /\ body.summary = Str(<<SummaryHead>> \o TopicOf(r) \o <<SummaryTail>>)
                   /\ body.days = Arr(dummyDays) /\ Len(body.days.a) = 5
                   /\ Len(body.resources.a) = 3
                   /\ {body.resources.a[i].o.type : i \in 1..3} = ResourceTypes

\* C4: a Course returned by normalizeCourse has days and resources not empty:
\* the template's 5 days (3 resources) when the candidate's are missing, no
\* array or empty, otherwise one entry per candidate element in the same order.
C4_NonEmptyOrTemplate ==
    Returned("normalizeCourse") /\ unit.result.ok =>
        LET out == unit.result.val.o
            cd == CandidateDays(unit.data)
            cr == CandidateResources(unit.data)
        IN  /\ out.days.a # <<>> /\ out.resources.a # <<>>
            /\ cd = <<>> => out.days = Arr(dummyDays) /\ Len(out.days.a) = 5
            /\ cr = <<>> => out.resources = Arr(dummyResources) /\ Len(out.resources.a) = 3
            /\ cd # <<>> =>
                /\ Len(out.days.a) = Len(cd)
                /\ \A i \in 1..Len(cd) :
                      IsText(Get(cd[i], "title")) =>
                          out.days.a[i].o.title = Get(cd[i], "title")
            /\ cr # <<>> =>
                /\ Len(out.resources.a) = Len(cr)
                /\ \A i \in 1..Len(cr) :
                      IsText(Get(cr[i], "title")) =>
                          out.resources.a[i].o.title = Get(cr[i], "title")

C4_Witness ==
    /\ Returned("normalizeCourse") /\ unit.result.ok
    /\ CandidateDays(unit.data) = <<>>
    /\ Len(CandidateResources(unit.data)) = 1
    /\ unit.result.val.o.days = Arr(dummyDays)

\* C5: a well-formed Course-shaped input comes back equal field for field,
\* and normalizing a result again changes nothing.
C5_RoundTrip ==
    Returned("normalizeCourse") =>
        /\ WellFormed(unit.data) => unit.result = Ok(unit.data)
        /\ unit.result.ok => normalizeCourse(unit.result.val, unit.topic) = unit.result

C5_Witness ==
    /\ Returned("normalizeCourse")
    /\ WellFormed(unit.data)
    /\ Len(unit.data.o.days.a) = 2

\* C6: every 200 response body built from normalizeCourse's result has every
\* declared field with its declared type, never null.
C6_TypedEverywhere ==
    \A r \in Req :
        Done(r) /\ reqs[r].fx.sent # <<>> /\ reqs[r].fx.sent[1].status = 200 =>
            TypedCourse(reqs[r].fx.sent[1].body)

\* C7: entry i (0-based) has day i+1 when the element's day is
\* missing or not a valid number and the element's own day otherwise; its
\* title is "Day {i+1}" when missing.
C7_DayDefaultsWhenInvalid ==
    Returned("normalizeCourse") /\ unit.result.ok =>
        LET cd == CandidateDays(unit.data)
        IN  \A n \in 1..Len(cd) :
                LET out == unit.result.val.o.days.a[n].o
                IN  /\ out.day = IF ValidNumber(Get(cd[n], "day"))
                                 THEN Get(cd[n], "day") ELSE Num(n)
                    /\ Get(cd[n], "title") = Undef =>
                            out.title = Str(<<"Day ", ToString(n)>>)

Min(S) == CHOOSE x \in S : \A y \in S : x <= y
Max(S) == CHOOSE x \in S : \A y \in S : x >= y

\* s without the white space at its two ends.
Trimmed(s) ==
    LET solid == {i \in 1..Len(s) : s[i] # WS}
    IN  IF solid = {} THEN <<>> ELSE SubSeq(s, Min(solid), Max(solid))

FencePositions(text) == {p \in 1..Len(text) : text[p] = FENCE}

\* The opening fences of the json-tagged blocks: a fence directly followed by
\* json, with a fence somewhere after it.
JsonBlocks(text) ==
    {p \in FencePositions(text) :
        /\ p + 1 <= Len(text) /\ text[p + 1] = JSONTAG
        /\ \E q \in FencePositions(text) : q > p + 1}

\* The opening fences of the blocks of any kind: a fence with a fence after it.
Blocks(text) ==
    {p \in FencePositions(text) : \E q \in FencePositions(text) : q > p}

\* What lies between position p and the next fence after it.
InnerFrom(text, p) ==
    SubSeq(text, p + 1, Min({q \in FencePositions(text) : q > p}) - 1)

Extracted(text) ==
    IF JsonBlocks(text) # {} THEN Trimmed(InnerFrom(text, Min(JsonBlocks(text)) + 1))
    ELSE IF Blocks(text) # {} THEN Trimmed(InnerFrom(text, Min(Blocks(text))))
    ELSE Trimmed(text)

\* Texts that stand for a JSON document: they start and end with characters
\* that are no white space, fence or tag.
IsJsonLike(b) ==
    /\ b # <<>> /\ Len(b) <= MaxTextLen /\ b[1] = "x" /\ b[Len(b)] = "x"
    /\ \A i \in 1..Len(b) : b[i] \in TextAlphabet

NoFence(b) == \A i \in 1..Len(b) : b[i] # FENCE

\* The texts b of which text is a fenced form.
FencedBodies(text) ==
    {b \in {SubSeq(text, 4, Len(text) - 2), SubSeq(text, 3, Len(text) - 2)} :
        IsJsonLike(b) /\ text \in {JsonFenced(b), PlainFenced(b)}}

\* C8 as stated: extractJson returns the trimmed content of the first
\* json-tagged fenced block, else of the first fenced block, else the trimmed
\* text; so the fenced and the unfenced form of the same JSON give the same
\* string.
C8_FencedEqualsUnfenced ==
    Returned("extractJson") =>
        /\ unit.result = Extracted(unit.text)
        /\ \A b \in FencedBodies(unit.text) :
              unit.result = extractJson(b) /\ unit.result = b

\* C8 amended: the same, with the fenced and the unfenced form of the same
\* JSON giving the same string when the JSON holds no triple backtick.
C8_FencedEqualsUnfencedNoBacktick ==
    Returned("extractJson") =>
        /\ unit.result = Extracted(unit.text)
        /\ \A b \in FencedBodies(unit.text) :
              NoFence(b) => unit.result = extractJson(b) /\ unit.result = b

C8_Witness ==
    /\ Returned("extractJson")
    /\ unit.text = JsonFenced(<<"x", WS, "x">>)
    /\ unit.result = <<"x", WS, "x">>

\* C9: a request whose topic is missing, empty or no string gets status 400
\* with an error message field; no model call is made and neither the
\* normalizer nor the fallback branch runs.
C9_Validation ==
    \A r \in Req :
        reqs[r].pc # "idle" /\ NoUsableTopic(reqs[r].body) =>
            /\ Done(r)
            /\ reqs[r].calls = 0
            /\ reqs[r].fx.path = "validation"
            /\ ~reqs[r].fx.escaped
            /\ Len(reqs[r].fx.sent) = 1
            /\ reqs[r].fx.sent[1].status = 400
            /\ "error" \in DOMAIN reqs[r].fx.sent[1].body.o
            /\ IsText(reqs[r].fx.sent[1].body.o.error)

C9_Witness ==
    \E r \in Req :
        /\ Done(r) /\ reqs[r].body = Obj([topic |-> Num(5)])
        /\ reqs[r].fx.sent[1].status = 400

====
